---- MODULE Spec2Model ----
(***************************************************************************)
(* Model of the tube-auto-publisher pipeline:                              *)
(*   - downloadFromDrive (utils/drive-downloader.js): the multi-candidate  *)
(*     fetch of one asset into a local file;                               *)
(*   - syncVideos (5syncgdrive.js): Drive inventory -> Notion records;     *)
(*   - runPipeline (run-pipeline.js) and the scripts it spawns:            *)
(*     1fetchvideos.js, 2downloadvideo.js, 3uploadyoutube.js,              *)
(*     4updatenotion.js, with utils/update-notion.js.                      *)
(* SpecFetch explores downloadFromDrive alone; Spec explores the record    *)
(* store under pipeline invocations and maintenance; SpecSync explores it  *)
(* under syncVideos passes started by hand and maintenance.                *)
(* SpecSelect, SpecLife, SpecCleanup, SpecExtract, SpecCreate and SpecMeta *)
(* explore one function each from its own inputs; SpecRace explores two    *)
(* pipeline invocations running at the same time on one database.          *)
(***************************************************************************)
EXTENDS Integers, Sequences, FiniteSets, TLC

VARIABLES
    \* ---- downloadFromDrive (one call) ----
    dpc,        \* position inside downloadFromDrive
    idx,        \* loop index i of the candidate loop, 1-based
    resp,       \* response of the candidate being tried
    sent,       \* bytes of the current body piped to the write stream so far
    cerr,       \* error caught for the current candidate
    hist,       \* what every candidate tried so far answered, in order of trial
    file,       \* the local file at filePath
    written,    \* responses from whose body at least one byte reached the file
    dres,       \* what the call returned or threw
    existed,    \* whether a file was at filePath when the call began
    \* ---- record store, inventory, pipeline ----
    store,      \* the Notion database: its pages, by page id
    older,      \* further pages of the database, all Uploaded long ago, whose
                \* titles and links match no file of the Drive folder
    drive,      \* the Drive folder listing (createdTime desc)
    lastSync,   \* bookkeeping of the last syncVideos pass
    pc,         \* position of the single worker inside runPipeline
    opts,       \* options of the running invocation
    sel,        \* pageId of the videoData that runPipeline read from
                \* temp_video_data.json in this invocation (0: none yet)
    run,        \* what happened so far in the running invocation
    disk,       \* Drive links whose downloaded asset is in the temp folder
    published,  \* per page id: number of videos inserted on YouTube for it
    ret,        \* result of the last finished invocation
    \* ---- calls of exported functions ----
    picks,      \* what consecutive getNextVideoForUpload calls returned
    olderErr,   \* further pages of the database, all in Error since long ago
    cleaned,    \* what the last cleanupOldErrors call did and returned
    url,        \* the Drive link given to downloadFromDrive, as characters
    fileId,     \* what extractFileIdFromUrl made of it
    lastUpdate, \* the last updateNotionAfterUpload call: its arguments, what
                \* its writes did and how it ended
    other,      \* the position, options, selection and results of a second
                \* runPipeline invocation, while the first one is scheduled
    videoData,  \* the record given to uploadToYoutube: the lengths of its
                \* title and description, its tags, its privacy option
    videoMetadata  \* the requestBody uploadToYoutube hands to videos.insert

fetchVars == <<dpc, idx, resp, sent, cerr, hist, file, written, dres, existed>>
pipeVars == <<store, older, drive, lastSync, pc, opts, sel, run, disk, published, ret>>
callVars == <<picks, olderErr, cleaned, url, fileId, lastUpdate, other, videoData, videoMetadata>>
vars == <<dpc, idx, resp, sent, cerr, hist, file, written, dres, existed,
          store, older, drive, lastSync, pc, opts, sel, run, disk, published, ret,
          picks, olderErr, cleaned, url, fileId, lastUpdate, other, videoData, videoMetadata>>

(***************************************************************************)
(* Bounds of the model.                                                    *)
(***************************************************************************)
MaxBody == 2        \* largest response body, in bytes

(***************************************************************************)
(* utils/drive-downloader.js                                               *)
(***************************************************************************)

\* The four candidate URLs built for a file id, in the order they are tried.
downloadUrls ==
    << "drive.google.com/uc?export=download&id=",
       "docs.google.com/uc?export=download&id=",
       "drive.usercontent.google.com/download?id=",
       "drive.google.com/uc?id=" >>

\* Content-Type header values, as the list of their ';'-separated parts.
\* <<>> is a response without the header (the code reads it as '').
ContentTypes ==
    { <<>>,
      <<"text/html">>,
      <<"text/html", "charset=utf-8">>,
      <<"video/mp4">>,
      <<"application/octet-stream">> }

\* What one GET of a candidate can produce: axios throws (timeout, network
\* error, status outside 200..399), or a response with headers and a body.
Responses ==
    { [kind |-> "throw", ctype |-> <<>>, clen |-> 0, body |-> 0] }
    \cup
    { [kind |-> "resp", ctype |-> c, clen |-> l, body |-> b] :
        c \in ContentTypes, b \in 0..MaxBody, l \in 0..(MaxBody + 1) }

NoResp == [kind |-> "none", ctype |-> <<>>, clen |-> 0, body |-> 0]

\* contentType.includes('text/html')
IncludesTextHtml(ct) == \E k \in 1..Len(ct) : ct[k] = "text/html"

NoFile == [exists |-> FALSE, size |-> 0, src |-> 0]

\* fs.createWriteStream(filePath): the file is created or truncated.
CreateWriteStream(k) == [exists |-> TRUE, size |-> 0, src |-> k]

\* if (fs.existsSync(filePath)) fs.unlinkSync(filePath), and a cleanup
\* that leaves the file where it is.
MutKeepsFile(f) == f

Unlink(f) == NoFile

(***************************************************************************)
(* extractFileIdFromUrl.  A link is a sequence of characters; the          *)
(* characters of the class [a-zA-Z0-9-_] are all but "/", "?", "=", "&".   *)
(***************************************************************************)

IsIdChar(c) == c \notin {"/", "?", "=", "&"}

\* The patterns of lines 29-35, in the order of the array: the literal text
\* before the capture group, and whether the pattern is anchored (^...$).
patterns ==
    << [lit |-> <<"/", "f", "i", "l", "e", "/", "d", "/">>, anchored |-> FALSE],
       [lit |-> <<"/", "o", "p", "e", "n", "?", "i", "d", "=">>, anchored |-> FALSE],
       [lit |-> <<"/", "d", "/">>, anchored |-> FALSE],
       [lit |-> <<"i", "d", "=">>, anchored |-> FALSE],
       [lit |-> <<>>, anchored |-> TRUE] >>

\* The positions of u at which `lit` stands followed by one character of
\* the class at least.
Occurrences(u, lit) ==
    { i \in 1..Len(u) :
        /\ i + Len(lit) <= Len(u)
        /\ SubSeq(u, i, i + Len(lit) - 1) = lit
        /\ IsIdChar(u[i + Len(lit)]) }

\* ([a-zA-Z0-9-_]+) at position i: the longest run of the class from i on.
RunFrom(u, i) ==
    LET ends == {j \in i..Len(u) : \A m \in i..j : IsIdChar(u[m])}
    IN SubSeq(u, i, CHOOSE j \in ends : \A e \in ends : e <= j)

\* url.match(pattern): <<>> for null, else <<match[1]>> of the leftmost
\* match.
Match(u, pattern) ==
    IF pattern.anchored
      THEN IF u # <<>> /\ \A m \in 1..Len(u) : IsIdChar(u[m]) THEN <<u>> ELSE <<>>
      ELSE LET occ == Occurrences(u, pattern.lit)
           IN IF occ = {} THEN <<>>
              ELSE LET first == CHOOSE i \in occ : \A o \in occ : i <= o
                   IN <<RunFrom(u, first + Len(pattern.lit))>>

NoId == [ok |-> FALSE, id |-> <<>>]

\* The loop of lines 37-43 from pattern n on, and the throw of line 45.
RECURSIVE FirstMatch(_, _, _)
FirstMatch(u, pats, n) ==
    IF n > Len(pats) THEN NoId
    ELSE IF Match(u, pats[n]) # <<>> THEN [ok |-> TRUE, id |-> Match(u, pats[n])[1]]
    ELSE FirstMatch(u, pats, n + 1)

\* extractFileIdFromUrl(url), and an extractor that tries the two path
\* patterns before the two query patterns.
MutPathFormsFirst(u) ==
    FirstMatch(u, <<patterns[1], patterns[3], patterns[2], patterns[4], patterns[5]>>, 1)

ExtractFileIdFromUrl(u) == FirstMatch(u, patterns, 1)

\* downloadFromDrive, lines 126-132 and 281-284: the id is extracted first;
\* when no pattern matches the call throws before anything else is done.
DExtract ==
    /\ dpc = "extract"
    /\ fileId' = ExtractFileIdFromUrl(url)
    /\ IF fileId'.ok
         THEN /\ dpc' = "start"
              /\ dres' = dres
         ELSE /\ dpc' = "thrown"
              /\ dres' = [ok |-> FALSE, error |-> "no-id", fileSize |-> 0, from |-> 0]
    /\ UNCHANGED <<idx, resp, sent, cerr, hist, file, written, url>>
    /\ UNCHANGED existed

\* Lines 139-143: if (fs.existsSync(filePath)) fs.unlinkSync(filePath), and
\* a version that leaves the file of an earlier call where it is.
MutLeavesExisting(f) == f

RemoveExisting(f) == IF f.exists THEN Unlink(f) ELSE f

\* Lines 134-154: build the path, remove a file left by an earlier call,
\* build the candidate list.
DBegin ==
    /\ dpc = "start"
    /\ existed' = file.exists
    /\ file' = RemoveExisting(file)
    /\ idx' = 1
    /\ dpc' = "request"
    /\ UNCHANGED <<resp, sent, cerr, hist, written, dres>>

\* Lines 160-185: await axios(...) for candidate idx.
DRequest ==
    /\ dpc = "request"
    /\ \E r \in Responses :
         /\ resp' = r
         /\ IF r.kind = "throw"
              THEN /\ cerr' = "request"
                   /\ dpc' = "caught"
              ELSE /\ cerr' = "none"
                   /\ dpc' = "check"
    /\ sent' = 0
    /\ UNCHANGED <<idx, hist, file, written, dres>>
    /\ UNCHANGED existed

\* The guard of lines 187-191, and the same guard switched off.
MutAcceptsMarkup(r) == FALSE

RejectsAsMarkup(r) == IncludesTextHtml(r.ctype)

\* i++ of the candidate loop (line 156), and a loop that steps over one
\* candidate.
MutSkipsCandidate(k) == k + 2

NextCandidate(k) == k + 1

\* What a candidate answered, kept for the record: its position in the list,
\* whether its declared type was text/html, whether its stream ran to
\* 'finish', and the bytes that were in the file then.
Answer(k, r, finished, f) ==
    [cand |-> k, html |-> IncludesTextHtml(r.ctype), fin |-> finished,
     got |-> IF finished THEN f.size ELSE 0]

\* Lines 251-257: the value returned on success.
ReturnValue(f, k, r) ==
    [ok |-> TRUE, error |-> "none", fileSize |-> f.size, from |-> k]

\* Lines 187-198: an HTML response is skipped with `continue`; after the
\* last candidate the loop ends and line 279 throws.  Any other response
\* opens the write stream and pipes the body into it.
DCheckType ==
    /\ dpc = "check"
    /\ IF RejectsAsMarkup(resp)
         THEN /\ hist' = Append(hist, Answer(idx, resp, FALSE, file))
              /\ IF idx < Len(downloadUrls)
                   THEN /\ idx' = NextCandidate(idx)
                        /\ dpc' = "request"
                        /\ dres' = dres
                   ELSE /\ idx' = idx
                        /\ dpc' = "thrown"
                        /\ dres' = [ok |-> FALSE, error |-> "all-failed",
                                    fileSize |-> 0, from |-> 0]
              /\ file' = file
         ELSE /\ file' = CreateWriteStream(idx)
              /\ dpc' = "stream"
              /\ UNCHANGED <<hist, idx, dres>>
    /\ UNCHANGED <<resp, sent, cerr, written>>
    /\ UNCHANGED existed

\* Lines 202-212: one chunk of the body goes through the pipe to the file.
DWriteChunk ==
    /\ dpc = "stream"
    /\ sent < resp.body
    /\ sent' = sent + 1
    /\ file' = [file EXCEPT !.size = @ + 1]
    /\ written' = written \cup {[cand |-> idx, html |-> IncludesTextHtml(resp.ctype)]}
    /\ UNCHANGED <<dpc, idx, resp, cerr, hist, dres>>
    /\ UNCHANGED existed

\* Lines 214-218: 'finish' of the write stream resolves the promise.
DFinish ==
    /\ dpc = "stream"
    /\ sent = resp.body
    /\ dpc' = "verify"
    /\ UNCHANGED <<idx, resp, sent, cerr, hist, file, written, dres>>
    /\ UNCHANGED existed

\* Lines 220-228: 'error' of the write stream or of the response stream
\* rejects the promise, at any point of the transfer.
DStreamError ==
    /\ dpc = "stream"
    /\ \E e \in {"write", "stream"} : cerr' = e
    /\ dpc' = "caught"
    /\ UNCHANGED <<idx, resp, sent, hist, file, written, dres>>
    /\ UNCHANGED existed

\* The test of line 241 (finalSize === 0), and the same test switched off.
MutAcceptsEmptyFile(f) == FALSE

EmptyFile(f) == f.size = 0

\* Lines 231-257: the file must exist and must not be empty; then return.
DVerify ==
    /\ dpc = "verify"
    /\ IF ~file.exists
         THEN /\ cerr' = "not-created"
              /\ dpc' = "caught"
              /\ UNCHANGED <<file, hist, dres>>
         ELSE IF EmptyFile(file)
           THEN /\ file' = Unlink(file)
                /\ cerr' = "empty"
                /\ dpc' = "caught"
                /\ UNCHANGED <<hist, dres>>
           ELSE /\ hist' = Append(hist, Answer(idx, resp, TRUE, file))
                /\ dres' = ReturnValue(file, idx, resp)
                /\ dpc' = "returned"
                /\ UNCHANGED <<file, cerr>>
    /\ UNCHANGED <<idx, resp, sent, written>>
    /\ UNCHANGED existed

\* Lines 259-275: the per-candidate catch: remove a partial file, go on to
\* the next candidate, or rethrow the error of the last one.
DCatch ==
    /\ dpc = "caught"
    /\ file' = IF file.exists THEN Unlink(file) ELSE file
    /\ hist' = Append(hist, Answer(idx, resp, cerr \in {"empty", "not-created"}, file))
    /\ IF idx < Len(downloadUrls)
         THEN /\ idx' = NextCandidate(idx)
              /\ dpc' = "request"
              /\ dres' = dres
         ELSE /\ idx' = idx
              /\ dpc' = "thrown"
              /\ dres' = [ok |-> FALSE, error |-> cerr, fileSize |-> 0, from |-> idx]
    /\ UNCHANGED <<resp, sent, cerr, written>>
    /\ UNCHANGED existed

NoResult == [ok |-> FALSE, error |-> "none", fileSize |-> 0, from |-> 0]

\* A file left at filePath by an earlier call (src 0), or none.
StaleFiles == {NoFile} \cup {[exists |-> TRUE, size |-> s, src |-> 0] : s \in 0..MaxBody}

FetchInit ==
    /\ dpc = "start"
    /\ idx = 0
    /\ resp = NoResp
    /\ sent = 0
    /\ cerr = "none"
    /\ hist = <<>>
    /\ file \in StaleFiles
    /\ written = {}
    /\ dres = NoResult
    /\ existed = FALSE

(***************************************************************************)
(* Names, titles and links.  A name is a sequence of characters.           *)
(***************************************************************************)

\* String.prototype.toLowerCase, character by character.
LowerChar(c) ==
    CASE c = "A" -> "a"
      [] c = "B" -> "b"
      [] OTHER -> c

ToLowerCase(s) == [k \in 1..Len(s) |-> LowerChar(s[k])]

\* String.prototype.trim: leading and trailing blanks are removed.
RECURSIVE Trim(_)
Trim(s) ==
    IF s = <<>> THEN s
    ELSE IF Head(s) = " " THEN Trim(Tail(s))
    ELSE IF s[Len(s)] = " " THEN Trim(SubSeq(s, 1, Len(s) - 1))
    ELSE s

\* The key both sides of the duplicate test use: x.toLowerCase().trim()
Normalize(s) == Trim(ToLowerCase(s))

\* video.name.replace(/\.[^/.]+$/, ""): a trailing ".ext" is removed; and
\* a listing that keeps the name as it is.
MutKeepsExtension(s) == s

StripExtension(s) ==
    LET dots == {k \in 1..Len(s) :
                    /\ s[k] = "."
                    /\ k < Len(s)
                    /\ \A m \in (k + 1)..Len(s) : s[m] \notin {".", "/"}}
    IN IF dots = {} THEN s
       ELSE SubSeq(s, 1, (CHOOSE k \in dots : TRUE) - 1)

\* `https://drive.google.com/file/d/${video.id}/view?usp=sharing`
ShareableLink(id) == <<"https://drive.google.com/file/d/", id, "/view?usp=sharing">>

\* getVideosFromDrive, lines 86-101: one listed file as syncVideos sees it.
ProcessedVideo(f) ==
    [id |-> f.id, name |-> StripExtension(f.name), driveLink |-> ShareableLink(f.id)]

(***************************************************************************)
(* The record store.                                                       *)
(***************************************************************************)

PageSize == 100     \* page_size of the unsorted, unfiltered database queries

Statuses == {"Pending", "Processing", "Uploaded", "Error"}

\* 5syncgdrive.js, lines 10-16.
DEFAULT_SETTINGS ==
    [category |-> "Education", privacy |-> "Public", status |-> "Pending",
     description |-> "", tags |-> ""]

\* addVideoToNotion, lines 159-220: the page created for a new video.
NewRecord(v) ==
    [title |-> v.name, link |-> v.driveLink, status |-> DEFAULT_SETTINGS.status,
     description |-> DEFAULT_SETTINGS.description, tags |-> DEFAULT_SETTINGS.tags,
     category |-> DEFAULT_SETTINGS.category, privacy |-> DEFAULT_SETTINGS.privacy,
     url |-> "", vid |-> "", errMsg |-> "", errDate |-> "none", attempts |-> 0]

\* One page of at most n results of a query without filter and without
\* sort: which pages of the database it holds is the store's choice.  The
\* result is the set of page ids of `store` in it; the rest of the page is
\* filled from the `older` pages.
QueryPage(n) ==
    LET total == Len(store) + older
        size == IF total < n THEN total ELSE n
    IN { S \in SUBSET (1..Len(store)) :
            /\ Cardinality(S) <= size
            /\ size - Cardinality(S) <= older }

\* getExistingVideosFromNotion, lines 131-145: the two lookup sets built
\* from the pages the query returned.
ExistingVideos(page) ==
    { Normalize(store[p].title) : p \in {q \in page : store[q].title # <<>>} }

ExistingLinks(page) ==
    { store[p].link : p \in {q \in page : store[q].link # <<>>} }

RECURSIVE Ascending(_)
Ascending(S) ==
    IF S = {} THEN <<>>
    ELSE LET m == CHOOSE x \in S : \A y \in S : x <= y
         IN <<m>> \o Ascending(S \ {m})

\* syncVideos, lines 259-270: the filter of the listing, as the positions
\* in the listing of the videos that are kept.
IsNewVideo(v, page, skipExisting) ==
    LET nameExists == Normalize(v.name) \in ExistingVideos(page)
        linkExists == v.driveLink \in ExistingLinks(page)
    IN ~(skipExisting /\ (nameExists \/ linkExists))

NewVideos(page, skipExisting) ==
    Ascending({k \in 1..Len(drive) :
                 IsNewVideo(ProcessedVideo(drive[k]), page, skipExisting)})

NoLimit == -1       \* options.limit when no cap is given (null, line 240)

\* syncVideos, line 280: limit ? newVideos.slice(0, limit) : newVideos
\* (limit is null, or the number parsed from --limit=N; 0 is falsy).
VideosToAdd(newVideos, limit) ==
    IF limit # NoLimit /\ limit # 0
      THEN SubSeq(newVideos, 1, IF limit < Len(newVideos) THEN limit ELSE Len(newVideos))
      ELSE newVideos

\* A loop that gives up at the first creation that fails.
MutStopsAtFirstFailure(toAdd, dryRun, failing) ==
    LET bad == {k \in 1..Len(toAdd) : toAdd[k] \in failing}
    IN IF dryRun THEN <<>>
       ELSE IF bad = {} THEN toAdd
       ELSE SubSeq(toAdd, 1, (CHOOSE k \in bad : \A b \in bad : k <= b) - 1)

\* syncVideos, lines 286-308: the videos whose page is really created.
AddedVideos(toAdd, dryRun, failing) ==
    IF dryRun THEN <<>>
    ELSE SelectSeq(toAdd, LAMBDA k : k \notin failing)

\* The listed videos for which the pass calls notion.pages.create.
Attempted(o, page) ==
    LET toAdd == VideosToAdd(NewVideos(page, o.skipExisting), o.limit)
    IN IF o.dryRun THEN {} ELSE {toAdd[k] : k \in 1..Len(toAdd)}

\* Bookkeeping of a pass, kept until the next operation on the store:
\* its options, the number of pages before it, the listed videos whose page
\* it created, its counts, and whether it ran right after a pass with the
\* default options, no cap and no failed creation.
NoSync ==
    [ran |-> FALSE, opts |-> [dryRun |-> FALSE, limit |-> NoLimit, skipExisting |-> TRUE],
     before |-> 0, items |-> <<>>, second |-> FALSE,
     added |-> 0, skipped |-> 0, errors |-> 0]

PlainPass(ls) ==
    /\ ls.ran
    /\ ls.opts = [dryRun |-> FALSE, limit |-> NoLimit, skipExisting |-> TRUE]
    /\ ls.errors = 0

\* syncVideos(folderId, {dryRun, limit, skipExisting}) as one pass over the
\* store: `page` is what the query of existing pages returned, `failing`
\* the listed videos for which notion.pages.create throws.
SyncVideos(o, page, failing) ==
    LET newVideos == NewVideos(page, o.skipExisting)
        toAdd == VideosToAdd(newVideos, o.limit)
        made == AddedVideos(toAdd, o.dryRun, failing)
        nerr == Cardinality({k \in 1..Len(toAdd) : ~o.dryRun /\ toAdd[k] \in failing})
    IN /\ store' = store \o [k \in 1..Len(made) |->
                               NewRecord(ProcessedVideo(drive[made[k]]))]
       /\ published' = published \o [k \in 1..Len(made) |-> 0]
       /\ lastSync' =
            [ran |-> TRUE,
             opts |-> o,
             before |-> Len(store),
             items |-> made,
             second |-> PlainPass(lastSync),
             added |-> IF Len(drive) = 0 \/ Len(newVideos) = 0 THEN 0
                       ELSE Len(toAdd) - nerr,
             skipped |-> IF Len(drive) = 0 THEN 0 ELSE Len(drive) - Len(newVideos),
             errors |-> nerr]

(***************************************************************************)
(* utils/update-notion.js                                                  *)
(***************************************************************************)

\* updateVideoStatus(pageId, status, youtubeData): the status is patched;
\* the YouTube URL only when youtubeData carries a videoUrl.
UpdateVideoStatus(s, id, status, videoUrl) ==
    [s EXCEPT ![id].status = status,
              ![id].url = IF videoUrl # "" THEN videoUrl ELSE @]

\* markAsUploaded(pageId, uploadResult, videoData), lines 98-105.
\* `wrote` tells whether notion.pages.update went through.
MarkAsUploaded(s, id, uploadResult, wrote) ==
    IF wrote THEN UpdateVideoStatus(s, id, "Uploaded", uploadResult.videoUrl) ELSE s

\* markAsError(pageId, errorMessage), lines 110-113, with addErrorLog
\* (lines 60-86): both patch the status to Error (and the Upload Date).
MarkAsError(s, id, wrote) ==
    IF wrote THEN UpdateVideoStatus(s, id, "Error", "") ELSE s

(***************************************************************************)
(* 1fetchvideos.js                                                         *)
(***************************************************************************)

\* Code-unit order of the characters that occur in titles.
CharRank(c) ==
    CASE c = " " -> 0
      [] c = "." -> 1
      [] c = "A" -> 2
      [] c = "B" -> 3
      [] c = "a" -> 4
      [] c = "b" -> 5
      [] OTHER -> 6

RECURSIVE TitleLeq(_, _)
TitleLeq(s, t) ==
    IF s = <<>> THEN TRUE
    ELSE IF t = <<>> THEN FALSE
    ELSE IF CharRank(Head(s)) # CharRank(Head(t)) THEN CharRank(Head(s)) < CharRank(Head(t))
    ELSE TitleLeq(Tail(s), Tail(t))

\* fetchPendingVideos(1), lines 584-614: filter Upload Status = Pending,
\* sort by Video Title ascending, page_size 1.  The set holds the pages the
\* query may return as its single result.
TitleTies ==
    LET pending == {p \in 1..Len(store) : store[p].status = "Pending"}
    IN {p \in pending : \A q \in pending : TitleLeq(store[p].title, store[q].title)}

\* Pages with equal titles come back in one fixed order, that of their
\* creation; the alternative is a store that returns any of them.
MutAnyOfTies(S) == S

TieBreak(S) == {p \in S : \A q \in S : p <= q}

FirstPending == TieBreak(TitleTies)

\* processVideoData, lines 526-571: isValid of the page.
IsValidVideo(r) == Trim(r.title) # <<>> /\ r.link # <<>>

\* getNextVideoForUpload, lines 711-732, with the loop of fetchPendingVideos
\* (lines 627-648) that keeps only the valid pages: the page id returned,
\* 0 for null.
GetNextVideoForUpload ==
    IF FirstPending = {} THEN {0}
    ELSE {IF IsValidVideo(store[p]) THEN p ELSE 0 : p \in FirstPending}

MaxCalls == 2       \* consecutive calls of getNextVideoForUpload

\* One call of getNextVideoForUpload() by a client of 1fetchvideos.js.
GetNextCall ==
    /\ Len(picks) < MaxCalls
    /\ \E r \in GetNextVideoForUpload : picks' = Append(picks, r)
    /\ UNCHANGED <<olderErr, cleaned, url, fileId, lastUpdate, other, videoData, videoMetadata>>

(***************************************************************************)
(* run-pipeline.js and the scripts it spawns                               *)
(***************************************************************************)

MaxStore == 2       \* pages of the database the model follows one by one
MaxDrive == 2       \* files in the Drive folder
MaxPublish == 2     \* videos inserted on YouTube in one behaviour

NoRun ==
    [dl |-> "none", redl |-> "none", pub |-> "none", marked |-> FALSE,
     upload |-> "none"]

\* How the catch of uploadVideoById ends, lines 1228-1257: the object it
\* returns is built with `videoData || null`, and videoData is a const of
\* the try block (line 1162), not in scope in the catch: evaluating it
\* throws a ReferenceError, so the promise of uploadVideoById is rejected.
CatchEnds == "rejected"
NoRet == [ended |-> FALSE, success |-> FALSE, step |-> "none"]
Failure(step) == [ended |-> TRUE, success |-> FALSE, step |-> step]
Success == [ended |-> TRUE, success |-> TRUE, step |-> "none"]

\* runPipeline's catch, lines 149-153: what is returned when runCommand
\* rejects (the child's 'error' event, lines 24-26: the command could not
\* be started): success false, the error message, no step.
Thrown == [ended |-> TRUE, success |-> FALSE, step |-> "none"]

DefaultSyncOptions == [dryRun |-> FALSE, limit |-> NoLimit, skipExisting |-> TRUE]

\* main of run-pipeline.js, lines 184-199, and runPipeline lines 44-59.
PStart ==
    /\ pc = "idle"
    /\ \E o \in [sync : BOOLEAN, preview : BOOLEAN] :
         /\ opts' = o
         /\ pc' = IF o.sync THEN "sync" ELSE "select"
    /\ run' = NoRun
    /\ ret' = NoRet
    /\ lastSync' = NoSync
    /\ UNCHANGED <<store, older, drive, sel, disk, published>>

\* Step 1, lines 61-73: `node 5syncgdrive.js` (main of 5syncgdrive.js with
\* no arguments).  A non-zero exit (environment, Drive or Notion query
\* failure) ends the invocation.
PSync ==
    /\ pc = "sync"
    /\ \/ /\ pc' = "done"
          /\ ret' \in {Failure("sync"), Thrown}
          /\ UNCHANGED <<store, published, lastSync>>
       \/ /\ \E page \in QueryPage(PageSize) :
               \E failing \in SUBSET Attempted(DefaultSyncOptions, page) :
                 SyncVideos(DefaultSyncOptions, page, failing)
          /\ Len(store') <= MaxStore
          /\ pc' = "select"
          /\ ret' = ret
    /\ UNCHANGED <<older, drive, opts, sel, run, disk>>

\* A step 2 that marks the page it selects as Processing (markAsProcessing,
\* part_001 lines 91-93, which no script calls).
MutSelectClaims ==
    /\ pc = "select"
    /\ \/ /\ pc' = "done"
          /\ ret' \in {Failure("fetch"), Thrown}
          /\ sel' = sel
          /\ store' = store
       \/ \E page \in QueryPage(PageSize) :
            LET counted == {p \in page : store[p].status = "Pending"}
            IN IF counted = {}
                 THEN /\ pc' = "done"
                      /\ ret' = Failure("fetch")
                      /\ sel' = sel
                      /\ store' = store
                 ELSE \E p \in FirstPending :
                        IF IsValidVideo(store[p])
                          THEN /\ sel' = p
                               /\ pc' = IF opts.preview THEN "finish" ELSE "download"
                               /\ ret' = ret
                               /\ store' = UpdateVideoStatus(store, p, "Processing", "")
                          ELSE /\ pc' = "done"
                               /\ ret' = Failure("fetch")
                               /\ sel' = sel
                               /\ store' = store
    /\ lastSync' = NoSync
    /\ UNCHANGED <<older, drive, opts, run, disk, published>>

\* Step 2, lines 75-95: `node 1fetchvideos.js` (main of 1fetchvideos.js):
\* checkDatabaseStatus counts the Pending pages of one unsorted page of
\* results, getNextVideoForUpload takes the first Pending page by title,
\* the result is written to temp_video_data.json.  Exit status 1 when the
\* store cannot be read, when no Pending page was counted, or when the
\* first Pending page is not valid.
PSelect ==
    /\ pc = "select"
    /\ \/ /\ pc' = "done"
          /\ ret' \in {Failure("fetch"), Thrown}
          /\ sel' = sel
       \/ \E page \in QueryPage(PageSize) :
            LET counted == {p \in page : store[p].status = "Pending"}
            IN IF counted = {}
                 THEN /\ pc' = "done"
                      /\ ret' = Failure("fetch")
                      /\ sel' = sel
                 ELSE \E p \in FirstPending :
                        IF IsValidVideo(store[p])
                          THEN /\ sel' = p
                               /\ pc' = IF opts.preview THEN "finish" ELSE "download"
                               /\ ret' = ret
                          ELSE /\ pc' = "done"
                               /\ ret' = Failure("fetch")
                               /\ sel' = sel
    /\ lastSync' = NoSync
    /\ UNCHANGED <<store, older, drive, opts, run, disk, published>>

\* Step 3, lines 97-108: `node 2downloadvideo.js <pageId>` (main,
\* downloadVideoById, downloadVideo of 2downloadvideo.js).  The record is
\* read, the asset is fetched with downloadFromDrive and validated.  On
\* failure the script exits 1 and the store is not written.
PDownload ==
    /\ pc = "download"
    /\ \/ /\ pc' = "done"
          /\ ret' = Thrown
          /\ UNCHANGED <<run, disk>>
       \/ \E out \in {"ok", "lookup", "fetch", "validation"} :
            /\ run' = [run EXCEPT !.dl = out]
            /\ disk' = CASE out = "ok" -> disk \cup {store[sel].link}
                         [] out = "lookup" -> disk
                         [] OTHER -> disk \ {store[sel].link}
            /\ IF out = "ok"
                 THEN /\ pc' = "up_lookup"
                      /\ ret' = ret
                 ELSE /\ pc' = "done"
                      /\ ret' = Failure("download")
    /\ UNCHANGED <<store, older, drive, lastSync, opts, sel, published>>

\* Step 4, lines 110-120: `node 3uploadyoutube.js <pageId>`: main calls
\* uploadVideoById(pageId) without a file path.  First the record is read
\* (lines 1160-1168); a failure goes to the catch of lines 1228-1257.
PUploadLookup ==
    /\ pc = "up_lookup"
    /\ \/ /\ pc' = "done"
          /\ ret' = Thrown
          /\ UNCHANGED <<store, lastSync, run>>
       \/ /\ pc' = "up_download"
          /\ UNCHANGED <<store, ret, lastSync, run>>
       \/ /\ \E wrote \in BOOLEAN : store' = MarkAsError(store, sel, wrote)
          /\ lastSync' = NoSync
          /\ run' = [run EXCEPT !.upload = CatchEnds]
          /\ pc' = "done"
          /\ ret' = Failure("upload")
    /\ UNCHANGED <<older, drive, opts, sel, disk, published>>

\* uploadVideoById, lines 1170-1184: no file path was given, so the asset
\* is downloaded again with downloadVideoById.  A failed download throws
\* into the catch of lines 1228-1257: markAsError, no file to clean up.
PUploadDownload ==
    /\ pc = "up_download"
    /\ \E out \in {"ok", "lookup", "fetch", "validation"} :
         /\ run' = [run EXCEPT !.redl = out,
                               !.upload = IF out = "ok" THEN @ ELSE CatchEnds]
         /\ disk' = CASE out = "ok" -> disk \cup {store[sel].link}
                      [] out = "lookup" -> disk
                      [] OTHER -> disk \ {store[sel].link}
         /\ IF out = "ok"
              THEN /\ pc' = "up_publish"
                   /\ UNCHANGED <<store, ret, lastSync>>
              ELSE /\ \E wrote \in BOOLEAN : store' = MarkAsError(store, sel, wrote)
                   /\ lastSync' = NoSync
                   /\ pc' = "done"
                   /\ ret' = Failure("upload")
    /\ UNCHANGED <<older, drive, opts, sel, published>>

RECURSIVE Publications(_)
Publications(pub) ==
    IF pub = <<>> THEN 0 ELSE Head(pub) + Publications(Tail(pub))

\* uploadVideoById, line 1187: uploadToYouTubeComplete (lines 1051-1143)
\* validates, inserts the video on YouTube and returns a result object;
\* every failure is caught and returned as success = false.
PUploadPublish ==
    /\ pc = "up_publish"
    /\ \/ /\ Publications(published) < MaxPublish
          /\ published' = [published EXCEPT ![sel] = @ + 1]
          /\ run' = [run EXCEPT !.pub = "ok"]
       \/ /\ published' = published
          /\ run' = [run EXCEPT !.pub = "failed"]
    /\ pc' = "up_mark"
    /\ UNCHANGED <<store, older, drive, lastSync, opts, sel, disk, ret>>

\* The uploadResult of the running invocation, as uploadVideoById holds it:
\* every video inserted on YouTube has a URL of its own.
UploadResult ==
    [success |-> run.pub = "ok",
     videoUrl |-> IF run.pub = "ok" THEN "yt" \o ToString(published[sel]) ELSE ""]

\* uploadVideoById, lines 1189-1226, and main, lines 1277-1287: the store is
\* updated with markAsUploaded (a failure of the write is only logged), the
\* file is removed when the upload failed, and the exit status is that of
\* uploadResult.success.
PUploadMark ==
    /\ pc = "up_mark"
    /\ \E wrote \in BOOLEAN :
         /\ store' = MarkAsUploaded(store, sel, UploadResult, wrote)
         /\ run' = [run EXCEPT !.marked = wrote, !.upload = "resolved"]
    /\ lastSync' = NoSync
    /\ disk' = IF ~UploadResult.success THEN disk \ {store[sel].link} ELSE disk
    /\ IF UploadResult.success
         THEN /\ pc' = "update"
              /\ ret' = ret
         ELSE /\ pc' = "done"
              /\ ret' = Failure("upload")
    /\ UNCHANGED <<older, drive, opts, sel, published>>

\* Step 5, lines 122-132: `node 4updatenotion.js <pageId>`.  The script
\* defines and exports its functions and calls none of them: it exits 0
\* and writes nothing.
PUpdate ==
    /\ pc = "update"
    /\ \/ /\ pc' = "finish"
          /\ ret' = ret
       \/ /\ pc' = "done"
          /\ ret' = Thrown
    /\ UNCHANGED <<store, older, drive, lastSync, opts, sel, run, disk,
                   published>>

\* Lines 133-147: temp_video_data.json is removed, success is returned.
PFinish ==
    /\ pc = "finish"
    /\ ret' = Success
    /\ pc' = "done"
    /\ UNCHANGED <<store, older, drive, lastSync, opts, sel, run, disk, published>>

\* main of run-pipeline.js, line 200: process.exit(result.success ? 0 : 1).
PExit ==
    /\ pc = "done"
    /\ pc' = "idle"
    /\ opts' = [sync |-> TRUE, preview |-> FALSE]
    /\ run' = NoRun
    /\ ret' = NoRet
    /\ sel' = 0
    /\ UNCHANGED <<store, older, drive, lastSync, disk, published>>

\* A runPipeline invocation that has not started.
IdleRun ==
    [pc |-> "idle", opts |-> [sync |-> TRUE, preview |-> FALSE], sel |-> 0,
     run |-> NoRun, ret |-> NoRet]

\* Two invocations of run-pipeline.js are processes of their own: each has
\* its position, its options, the videoData it read at line 88 and its
\* results, and both work on the same Notion database, Drive folder,
\* download directory and YouTube channel.  The scheduler passes from one
\* process to the other between any two steps.
Switch ==
    /\ other' = [pc |-> pc, opts |-> opts, sel |-> sel, run |-> run, ret |-> ret]
    /\ pc' = other.pc
    /\ opts' = other.opts
    /\ sel' = other.sel
    /\ run' = other.run
    /\ ret' = other.ret
    /\ UNCHANGED <<store, older, drive, lastSync, disk, published>>
    /\ UNCHANGED <<picks, olderErr, cleaned, url, fileId, lastUpdate, videoData,
                   videoMetadata>>

\* The worker is terminated in the middle of an invocation: what it wrote
\* to the store, to YouTube and to the disk stays.
Crash ==
    /\ pc \notin {"idle", "done"}
    /\ pc' = "idle"
    /\ opts' = [sync |-> TRUE, preview |-> FALSE]
    /\ run' = NoRun
    /\ ret' = NoRet
    /\ sel' = 0
    /\ lastSync' = NoSync
    /\ UNCHANGED <<store, older, drive, disk, published>>

\* `node 5syncgdrive.js [--preview] [--limit=N]` run by hand between
\* pipeline invocations (main of 5syncgdrive.js, lines 335-379).  Passes
\* with --force, which switches the duplicate test off, are not followed.
SyncCli ==
    /\ pc = "idle"
    /\ \E o \in [dryRun : BOOLEAN, limit : {NoLimit} \cup 0..MaxDrive,
                  skipExisting : {TRUE}],
          page \in QueryPage(PageSize) :
         \E failing \in SUBSET Attempted(o, page) :
           SyncVideos(o, page, failing)
    /\ Len(store') <= MaxStore
    /\ UNCHANGED <<older, drive, pc, opts, sel, run, disk, ret>>

\* cleanupOldErrors(days), 4updatenotion.js lines 339-404: the pages in
\* Error whose Error Date is before the cutoff are queried (one page of
\* results, no page_size given: Notion returns at most 100); each page
\* returned is reset to Pending, its Error Message cleared and its Upload
\* Attempts set to 0; a page whose update throws is skipped.  The number of
\* pages reset is returned.
ResetPage(r) == [r EXCEPT !.status = "Pending", !.errMsg = "", !.attempts = 0]

OldErrorPages ==
    {p \in 1..Len(store) : store[p].status = "Error" /\ store[p].errDate = "old"}

\* The pages of `store` in the one page of results of the query; the rest
\* of the page is filled from the olderErr pages.
ErrorQuerySize ==
    LET total == Cardinality(OldErrorPages) + olderErr
    IN IF total < PageSize THEN total ELSE PageSize

ErrorQueryPage ==
    { S \in SUBSET OldErrorPages :
        /\ Cardinality(S) <= ErrorQuerySize
        /\ ErrorQuerySize - Cardinality(S) <= olderErr }

NoCleanup == [ran |-> FALSE, count |-> 0, failed |-> 0]

CleanupOldErrors ==
    /\ pc = "idle"
    /\ ErrorQuerySize > 0
    /\ \E S \in ErrorQueryPage :
         \E failing \in SUBSET S :
           LET fromOlder == ErrorQuerySize - Cardinality(S)
           IN /\ store' = [p \in 1..Len(store) |->
                             IF p \in S \ failing THEN ResetPage(store[p])
                             ELSE store[p]]
              /\ olderErr' = olderErr - fromOlder
              /\ cleaned' = [ran |-> TRUE,
                             count |-> Cardinality(S \ failing) + fromOlder,
                             failed |-> Cardinality(failing)]
    /\ lastSync' = NoSync
    /\ UNCHANGED <<older, drive, pc, opts, sel, run, disk, published, ret, picks,
                   url, fileId, lastUpdate, other, videoData, videoMetadata>>

(***************************************************************************)
(* utils/youtube-uploader.js.  A title and a description are modelled by   *)
(* their length (String.length), the tags string by its comma-separated    *)
(* items after trim(): a sequence of runs of `times` items of length       *)
(* `len`; the privacy option by the name of the Notion select.             *)
(***************************************************************************)

\* String.prototype.substring(0, k), as a length.
Substring(n, k) == IF n < k THEN n ELSE k

\* The length of the footer of formatDescription, lines 546-553.
FooterLength == 158

\* formatDescription(description, videoData), lines 542-560.
FormatDescription(description) ==
    LET formattedDesc == IF description < 4500
                           THEN description + FooterLength ELSE description
    IN Substring(formattedDesc, 5000)

\* Array.prototype.slice(0, k) on runs of items.
RECURSIVE Slice(_, _)
Slice(runs, k) ==
    IF runs = <<>> \/ k = 0 THEN <<>>
    ELSE IF Head(runs).times >= k
      THEN <<[Head(runs) EXCEPT !.times = k]>>
      ELSE <<Head(runs)>> \o Slice(Tail(runs), k - Head(runs).times)

\* processTags(tagsString), lines 520-534: split, trim, filter, slice.
ProcessTags(tagsString) ==
    Slice(SelectSeq(tagsString, LAMBDA t : t.len > 0 /\ t.len <= 500), 500)

\* Names every object literal inherits from Object.prototype (some of them).
ObjectPrototype == {"constructor", "toString", "__proto__"}

\* privacyMap[privacy], lines 504-510: the three own properties of the
\* literal, the inherited properties, undefined for every other name.
PrivacyMap(privacy) ==
    CASE privacy = "Public" -> "public"
      [] privacy = "Unlisted" -> "unlisted"
      [] privacy = "Private" -> "private"
      [] privacy \in ObjectPrototype -> "Object.prototype." \o privacy
      [] OTHER -> "undefined"

\* formatPrivacyStatus(privacy), lines 503-513: privacyMap[privacy] || 'public'.
FormatPrivacyStatus(privacy) ==
    IF PrivacyMap(privacy) # "undefined" THEN PrivacyMap(privacy) ELSE "public"

NoVideoData == [title |-> 0, description |-> 0, tags |-> <<>>, privacy |-> "Public"]
NoMetadata ==
    [called |-> FALSE, inserted |-> FALSE, title |-> 0, description |-> 0,
     tags |-> <<>>, privacyStatus |-> "none"]

\* uploadToYoutube(videoData, videoFile), lines 643-690.  validateVideoData
\* (lines 567-612) throws for an empty title, a missing file or a file over
\* 2 GB (`fileOk` false): then videos.insert is not called.
UploadToYoutube ==
    /\ ~videoMetadata.called
    /\ \E fileOk \in BOOLEAN :
         IF videoData.title = 0 \/ ~fileOk
           THEN videoMetadata' = [NoMetadata EXCEPT !.called = TRUE]
           ELSE videoMetadata' =
                  [called |-> TRUE, inserted |-> TRUE,
                   title |-> Substring(videoData.title, 100),
                   description |-> FormatDescription(videoData.description),
                   tags |-> ProcessTags(videoData.tags),
                   privacyStatus |-> FormatPrivacyStatus(videoData.privacy)]
    /\ UNCHANGED videoData
    /\ UNCHANGED <<picks, olderErr, cleaned, url, fileId, lastUpdate, other>>

(***************************************************************************)
(* 4updatenotion.js: the functions it exports, called by a client that     *)
(* holds the result of an upload.                                          *)
(***************************************************************************)

MaxAttempts == 3    \* largest value of Upload Attempts

\* What uploadToYouTubeComplete returns (3uploadyoutube.js, lines 1105-1142):
\* on success the video id and URL and no attempts field, on failure the
\* error message and attempts: 1.
UploadResults ==
    { [success |-> TRUE, videoUrl |-> "ytL", videoId |-> "idL", error |-> "", attempts |-> 0],
      [success |-> FALSE, videoUrl |-> "", videoId |-> "", error |-> "e", attempts |-> 1] }

\* updateNotionPage(pageId, uploadResult), lines 65-183: the properties
\* written to the page.
UpdateNotionPage(r, res) ==
    [r EXCEPT
       !.status = IF res.success THEN "Uploaded" ELSE "Error",
       !.url = IF res.success /\ res.videoUrl # "" THEN res.videoUrl ELSE @,
       !.vid = IF res.videoId # "" THEN res.videoId ELSE @,
       !.errMsg = IF ~res.success /\ res.error # "" THEN res.error ELSE @,
       !.errDate = IF ~res.success /\ res.error # "" THEN "new" ELSE @,
       !.attempts = IF res.attempts # 0 THEN res.attempts ELSE @]

\* incrementAttempts(pageId), lines 216-247: read, add one, write; a failure
\* of the read or of the write is caught and the counter stays.
IncrementAttempts(r, wrote) ==
    IF wrote THEN [r EXCEPT !.attempts = @ + 1] ELSE r

NoUpdate ==
    [ran |-> FALSE, page |-> 0, success |-> FALSE, wrote |-> FALSE,
     commented |-> FALSE, ended |-> "none"]

\* How updateNotionAfterUpload ends, lines 420-446: it throws when
\* updateNotionPage threw and returns updateResult otherwise; addComment
\* catches its own failure (lines 267-269).  And a version in which the
\* failure of the comment reaches the caller.
MutCommentFailureThrows(wrote, commented) ==
    IF wrote /\ commented THEN "returned" ELSE "thrown"

AfterUploadEnds(wrote, commented) == IF wrote THEN "returned" ELSE "thrown"

\* updateNotionAfterUpload(pageId, uploadResult), lines 413-448.  When
\* updateNotionPage throws (`wrote` false) nothing is written and the call
\* throws; after a failed upload incrementAttempts follows; addComment
\* writes no property of the page and may fail (`commented` false).
UpdateNotionAfterUpload ==
    /\ pc = "idle"
    /\ \E p \in 1..Len(store), res \in UploadResults,
          wrote \in BOOLEAN, inc \in BOOLEAN, commented \in BOOLEAN :
         LET updated == UpdateNotionPage(store[p], res)
         IN /\ updated.attempts < MaxAttempts
            /\ ~wrote => (~inc /\ ~commented)
            /\ store' = [store EXCEPT ![p] =
                           IF ~wrote THEN @
                           ELSE IF res.success THEN updated
                           ELSE IncrementAttempts(updated, inc)]
            /\ lastUpdate' = [ran |-> TRUE, page |-> p, success |-> res.success,
                              wrote |-> wrote, commented |-> commented,
                              ended |-> AfterUploadEnds(wrote, commented)]
    /\ lastSync' = NoSync
    /\ UNCHANGED <<older, drive, pc, opts, sel, run, disk, published, ret>>
    /\ UNCHANGED <<picks, olderErr, cleaned, url, fileId, other, videoData,
                   videoMetadata>>

\* markAsError(pageId, errorMessage, attempts = 1) of 4updatenotion.js,
\* lines 192-209, called with its default attempts.
MarkAsErrorWithAttempts ==
    /\ pc = "idle"
    /\ \E p \in 1..Len(store) :
         store' = [store EXCEPT ![p] =
                     UpdateNotionPage(@, [success |-> FALSE, videoUrl |-> "",
                                          videoId |-> "", error |-> "e",
                                          attempts |-> 1])]
    /\ lastSync' = NoSync
    /\ UNCHANGED <<older, drive, pc, opts, sel, run, disk, published, ret>>
    /\ UNCHANGED callVars

\* Time goes by between two invocations: the cutoff of cleanupOldErrors
\* (now minus `days`) moves past every Error Date written so far.
DaysPass ==
    /\ pc = "idle"
    /\ \E p \in 1..Len(store) : store[p].errDate = "new"
    /\ store' = [p \in 1..Len(store) |->
                   IF store[p].errDate = "new"
                     THEN [store[p] EXCEPT !.errDate = "old"] ELSE store[p]]
    /\ UNCHANGED <<older, drive, lastSync, pc, opts, sel, run, disk, published, ret>>
    /\ UNCHANGED callVars

(***************************************************************************)
(* Initial states and specifications.                                      *)
(***************************************************************************)

\* Names of the files in the Drive folder.
FileNames ==
    { <<"a", ".", "m">>, <<"A", " ", ".", "m">>, <<"b", ".", "m">> }

\* The k-th listed file has its own Drive id.
DriveFile(k, n) == [id |-> "x" \o ToString(k), name |-> n]

Drives ==
    UNION { { [k \in 1..len |-> DriveFile(k, f[k])] : f \in [1..len -> FileNames] } :
            len \in 0..MaxDrive }

\* Pages the store holds when the model starts: none, or the page of the
\* first file, registered by an earlier pass and since then untouched,
\* uploaded (URL and video id recorded), or failed long ago.
InitialRecords ==
    LET base == NewRecord(ProcessedVideo(DriveFile(1, <<"a", ".", "m">>)))
    IN { base,
         [base EXCEPT !.status = "Uploaded", !.url = "yt0", !.vid = "id0"],
         [base EXCEPT !.status = "Error", !.errMsg = "e", !.errDate = "old",
                      !.attempts = 1] }

InitialStores == {<<>>} \cup {<<r>> : r \in InitialRecords}

\* Drive folders of the pipeline runs: files with different names.
PipelineDrives ==
    { d \in Drives : \A j, k \in 1..Len(d) : j # k => d[j].name # d[k].name }

FetchIdle ==
    /\ dpc = "start"
    /\ idx = 0
    /\ resp = NoResp
    /\ sent = 0
    /\ cerr = "none"
    /\ hist = <<>>
    /\ file = NoFile
    /\ written = {}
    /\ dres = NoResult
    /\ existed = FALSE

CallIdle ==
    /\ picks = <<>>
    /\ olderErr = 0
    /\ cleaned = NoCleanup
    /\ url = <<>>
    /\ fileId = NoId
    /\ lastUpdate = NoUpdate
    /\ other = IdleRun
    /\ videoData = NoVideoData
    /\ videoMetadata = NoMetadata

PipeIdle ==
    /\ store = <<>>
    /\ older = 0
    /\ drive = <<>>
    /\ lastSync = NoSync
    /\ pc = "idle"
    /\ opts = [sync |-> TRUE, preview |-> FALSE]
    /\ sel = 0
    /\ run = NoRun
    /\ disk = {}
    /\ published = <<>>
    /\ ret = NoRet

SyncInit ==
    /\ store \in InitialStores
    /\ older \in {0, PageSize}
    /\ drive \in Drives
    /\ lastSync = NoSync
    /\ pc = "idle"
    /\ opts = [sync |-> TRUE, preview |-> FALSE]
    /\ sel = 0
    /\ run = NoRun
    /\ disk = {}
    /\ published = [p \in 1..Len(store) |-> 0]
    /\ ret = NoRet

PipeInit ==
    /\ store \in InitialStores
    /\ older \in {0, PageSize}
    /\ drive \in PipelineDrives
    /\ lastSync = NoSync
    /\ pc = "idle"
    /\ opts = [sync |-> TRUE, preview |-> FALSE]
    /\ sel = 0
    /\ run = NoRun
    /\ disk = {}
    /\ published = [p \in 1..Len(store) |-> 0]
    /\ ret = NoRet

InitFetch == FetchInit /\ PipeIdle /\ CallIdle

NextFetch ==
    \/ (DBegin /\ UNCHANGED pipeVars /\ UNCHANGED callVars)
    \/ (DRequest /\ UNCHANGED pipeVars /\ UNCHANGED callVars)
    \/ (DCheckType /\ UNCHANGED pipeVars /\ UNCHANGED callVars)
    \/ (DWriteChunk /\ UNCHANGED pipeVars /\ UNCHANGED callVars)
    \/ (DFinish /\ UNCHANGED pipeVars /\ UNCHANGED callVars)
    \/ (DStreamError /\ UNCHANGED pipeVars /\ UNCHANGED callVars)
    \/ (DVerify /\ UNCHANGED pipeVars /\ UNCHANGED callVars)
    \/ (DCatch /\ UNCHANGED pipeVars /\ UNCHANGED callVars)

SpecFetch == InitFetch /\ [][NextFetch]_vars

Init == FetchIdle /\ PipeInit /\ CallIdle

Next ==
    \/ (PStart /\ UNCHANGED fetchVars /\ UNCHANGED callVars)
    \/ (PSync /\ UNCHANGED fetchVars /\ UNCHANGED callVars)
    \/ (PSelect /\ UNCHANGED fetchVars /\ UNCHANGED callVars)
    \/ (PDownload /\ UNCHANGED fetchVars /\ UNCHANGED callVars)
    \/ (PUploadLookup /\ UNCHANGED fetchVars /\ UNCHANGED callVars)
    \/ (PUploadDownload /\ UNCHANGED fetchVars /\ UNCHANGED callVars)
    \/ (PUploadPublish /\ UNCHANGED fetchVars /\ UNCHANGED callVars)
    \/ (PUploadMark /\ UNCHANGED fetchVars /\ UNCHANGED callVars)
    \/ (PUpdate /\ UNCHANGED fetchVars /\ UNCHANGED callVars)
    \/ (PFinish /\ UNCHANGED fetchVars /\ UNCHANGED callVars)
    \/ (PExit /\ UNCHANGED fetchVars /\ UNCHANGED callVars)
    \/ (Crash /\ UNCHANGED fetchVars /\ UNCHANGED callVars)
    \/ (CleanupOldErrors /\ UNCHANGED fetchVars)

Spec == Init /\ [][Next]_vars

NextSync ==
    \/ (SyncCli /\ UNCHANGED fetchVars /\ UNCHANGED callVars)
    \/ (CleanupOldErrors /\ UNCHANGED fetchVars)

InitSync == FetchIdle /\ SyncInit /\ CallIdle

SpecSync == InitSync /\ [][NextSync]_vars

MaxRuns == 2

\* Records given to uploadToYoutube: titles and descriptions around the
\* limits, up to MaxRuns runs of tags, the three privacy options of the
\* database, an option of another name, and options named like inherited
\* properties.
TitleLengths == {0, 1, 100, 101, 250}
DescriptionLengths == {0, 4499, 4500, 4999, 5001, 6000}
TagRuns == [len : {0, 500, 501}, times : {1, 499, 501}]
TagStrings == UNION { [1..n -> TagRuns] : n \in 0..MaxRuns }
PrivacyNames == {"Public", "Unlisted", "Private", "Hidden"} \cup ObjectPrototype

MetaInit ==
    /\ picks = <<>>
    /\ olderErr = 0
    /\ cleaned = NoCleanup
    /\ url = <<>>
    /\ fileId = NoId
    /\ lastUpdate = NoUpdate
    /\ other = IdleRun
    /\ videoData \in [title : TitleLengths, description : DescriptionLengths,
                       tags : TagStrings, privacy : PrivacyNames]
    /\ videoMetadata = NoMetadata

InitMeta == FetchIdle /\ PipeIdle /\ MetaInit

NextMeta == UploadToYoutube /\ UNCHANGED fetchVars /\ UNCHANGED pipeVars

SpecMeta == InitMeta /\ [][NextMeta]_vars

\* Two concurrent invocations of the pipeline on one database.
NextRace ==
    \/ (PStart /\ UNCHANGED fetchVars /\ UNCHANGED callVars)
    \/ (PSync /\ UNCHANGED fetchVars /\ UNCHANGED callVars)
    \/ (PSelect /\ UNCHANGED fetchVars /\ UNCHANGED callVars)
    \/ (PDownload /\ UNCHANGED fetchVars /\ UNCHANGED callVars)
    \/ (PUploadLookup /\ UNCHANGED fetchVars /\ UNCHANGED callVars)
    \/ (PUploadDownload /\ UNCHANGED fetchVars /\ UNCHANGED callVars)
    \/ (PUploadPublish /\ UNCHANGED fetchVars /\ UNCHANGED callVars)
    \/ (PUploadMark /\ UNCHANGED fetchVars /\ UNCHANGED callVars)
    \/ (PUpdate /\ UNCHANGED fetchVars /\ UNCHANGED callVars)
    \/ (PFinish /\ UNCHANGED fetchVars /\ UNCHANGED callVars)
    \/ (PExit /\ UNCHANGED fetchVars /\ UNCHANGED callVars)
    \/ (Switch /\ UNCHANGED fetchVars)

\* One Pending page of an earlier pass, and a Drive folder with at most
\* one file.
RaceInit ==
    /\ store = <<NewRecord(ProcessedVideo(DriveFile(1, <<"a", ".", "m">>)))>>
    /\ older = 0
    /\ drive \in {d \in PipelineDrives : Len(d) <= 1}
    /\ lastSync = NoSync
    /\ pc = "idle"
    /\ opts = [sync |-> TRUE, preview |-> FALSE]
    /\ sel = 0
    /\ run = NoRun
    /\ disk = {}
    /\ published = [p \in 1..Len(store) |-> 0]
    /\ ret = NoRet

InitRace == FetchIdle /\ RaceInit /\ CallIdle

SpecRace == InitRace /\ [][NextRace]_vars

\* Titles of the pages the selector is called on: none, "a", "b".
SelectTitles == { <<>>, <<"a">>, <<"b">> }

\* The database the selector is called on: pages in any status, with or
\* without a title and a Drive link.
SelectRecords ==
    { [NewRecord(ProcessedVideo(DriveFile(1, <<"a">>)))
         EXCEPT !.title = t, !.status = st, !.link = IF l THEN @ ELSE <<>>] :
        t \in SelectTitles, st \in Statuses, l \in BOOLEAN }

SelectStores ==
    UNION { [1..len -> SelectRecords] : len \in 0..MaxStore }

SelectInit ==
    /\ store \in SelectStores
    /\ older = 0
    /\ drive = <<>>
    /\ lastSync = NoSync
    /\ pc = "idle"
    /\ opts = [sync |-> TRUE, preview |-> FALSE]
    /\ sel = 0
    /\ run = NoRun
    /\ disk = {}
    /\ published = [p \in 1..Len(store) |-> 0]
    /\ ret = NoRet

InitSelect == FetchIdle /\ SelectInit /\ CallIdle

NextSelect == GetNextCall /\ UNCHANGED fetchVars /\ UNCHANGED pipeVars

SpecSelect == InitSelect /\ [][NextSelect]_vars

\* The record store under everything that writes it: pipeline invocations
\* without the sync step's Drive folder, the functions 4updatenotion.js
\* exports, and time.
LifeInit ==
    /\ store = <<NewRecord(ProcessedVideo(DriveFile(1, <<"a", ".", "m">>)))>>
    /\ older = 0
    /\ drive = <<>>
    /\ lastSync = NoSync
    /\ pc = "idle"
    /\ opts = [sync |-> TRUE, preview |-> FALSE]
    /\ sel = 0
    /\ run = NoRun
    /\ disk = {}
    /\ published = <<0>>
    /\ ret = NoRet

InitLife == FetchIdle /\ LifeInit /\ CallIdle

NextLife ==
    \/ Next
    \/ (UpdateNotionAfterUpload /\ UNCHANGED fetchVars)
    \/ (MarkAsErrorWithAttempts /\ UNCHANGED fetchVars)
    \/ (DaysPass /\ UNCHANGED fetchVars)

SpecLife == InitLife /\ [][NextLife]_vars

\* cleanupOldErrors on databases of up to MaxStore pages followed one by
\* one, in any status and with any Error Date, with or without PageSize
\* further pages in Error since long ago.
CleanupRecords ==
    { [NewRecord(ProcessedVideo(DriveFile(1, <<"a">>)))
         EXCEPT !.status = st, !.errDate = d,
                !.errMsg = IF st = "Error" THEN "e" ELSE "",
                !.attempts = IF st = "Error" THEN 1 ELSE 0] :
        st \in Statuses, d \in {"none", "new", "old"} }

CleanupInit ==
    /\ store \in UNION { [1..len -> CleanupRecords] : len \in 0..MaxStore }
    /\ older = 0
    /\ drive = <<>>
    /\ lastSync = NoSync
    /\ pc = "idle"
    /\ opts = [sync |-> TRUE, preview |-> FALSE]
    /\ sel = 0
    /\ run = NoRun
    /\ disk = {}
    /\ published = [p \in 1..Len(store) |-> 0]
    /\ ret = NoRet
    /\ picks = <<>>
    /\ olderErr \in {0, PageSize}
    /\ cleaned = NoCleanup
    /\ url = <<>>
    /\ fileId = NoId
    /\ lastUpdate = NoUpdate
    /\ other = IdleRun
    /\ videoData = NoVideoData
    /\ videoMetadata = NoMetadata

InitCleanup == FetchIdle /\ CleanupInit

NextCleanup == CleanupOldErrors /\ UNCHANGED fetchVars

SpecCleanup == InitCleanup /\ [][NextCleanup]_vars

\* downloadFromDrive up to the extraction of the id, for every link made of
\* at most MaxParts of the parts below.
MaxParts == 4

UrlParts ==
    { patterns[1].lit, patterns[2].lit, patterns[3].lit, patterns[4].lit,
      <<"A">>, <<"B">>, <<"&">> }

RECURSIVE Flatten(_)
Flatten(ps) == IF ps = <<>> THEN <<>> ELSE Head(ps) \o Flatten(Tail(ps))

Urls == { Flatten(ps) : ps \in UNION { [1..n -> UrlParts] : n \in 0..MaxParts } }

ExtractInit ==
    /\ dpc = "extract"
    /\ idx = 0
    /\ resp = NoResp
    /\ sent = 0
    /\ cerr = "none"
    /\ hist = <<>>
    /\ file = NoFile
    /\ written = {}
    /\ dres = NoResult
    /\ existed = FALSE
    /\ picks = <<>>
    /\ olderErr = 0
    /\ cleaned = NoCleanup
    /\ url \in Urls
    /\ fileId = NoId
    /\ lastUpdate = NoUpdate
    /\ other = IdleRun
    /\ videoData = NoVideoData
    /\ videoMetadata = NoMetadata

InitExtract == ExtractInit /\ PipeIdle

NextExtract ==
    DExtract /\ UNCHANGED pipeVars /\ UNCHANGED <<picks, olderErr, cleaned, lastUpdate, other, videoData, videoMetadata>>

SpecExtract == InitExtract /\ [][NextExtract]_vars

\* Passes of syncVideos over an empty database, for folder listings whose
\* names have one extension, none, two, nothing before the extension, or a
\* dot at the end.
CreateNames ==
    { <<"a", ".", "m">>, <<"a">>, <<"a", ".", "b", ".", "m">>, <<".", "m">>,
      <<"a", ".">>, <<"b", " ", ".", "m">> }

CreateInit ==
    /\ store = <<>>
    /\ older = 0
    /\ drive \in UNION { { [k \in 1..len |-> DriveFile(k, f[k])] :
                             f \in [1..len -> CreateNames] } : len \in 0..MaxDrive }
    /\ lastSync = NoSync
    /\ pc = "idle"
    /\ opts = [sync |-> TRUE, preview |-> FALSE]
    /\ sel = 0
    /\ run = NoRun
    /\ disk = {}
    /\ published = <<>>
    /\ ret = NoRet

InitCreate == FetchIdle /\ CreateInit /\ CallIdle

NextCreate == SyncCli /\ UNCHANGED fetchVars /\ UNCHANGED callVars

SpecCreate == InitCreate /\ [][NextCreate]_vars

(***************************************************************************)
(* Claims about downloadFromDrive (checked under SpecFetch).               *)
(***************************************************************************)

\* C1: downloadFromDrive never accepts a markup page as the asset: a
\* successful result comes from the candidate being tried, whose declared
\* content type did not include text/html, and refers to a local file that
\* exists, is non-empty and holds that candidate's bytes; and no byte of a
\* response declared text/html is ever written to the local file.
C1_NeverAcceptsMarkup ==
    /\ dres.ok =>
          /\ dpc = "returned"
          /\ dres.from = idx
          /\ ~IncludesTextHtml(resp.ctype)
          /\ file.exists
          /\ file.size > 0
          /\ file.src = dres.from
          /\ dres.fileSize = file.size
    /\ \A w \in written : ~w.html

\* C1 witness: the call returned successfully after an earlier candidate had
\* answered text/html with a non-empty body.
C1_Witness ==
    /\ dres.ok
    /\ dpc = "returned"
    /\ \E j \in 1..Len(hist) : hist[j].html
    /\ written # {}

\* A candidate answered valid binary content: its declared type was not
\* text/html and its stream ran to the end with at least one byte.
ValidBinary(a) == ~a.html /\ a.fin /\ a.got > 0

\* C2: candidates are tried strictly in list order, and when candidates
\* 1..k-1 answered a markup content type and candidate k answered valid
\* binary content, the call returns candidate k's payload (the result size
\* is the size of k's body) and no candidate after k is ever attempted.
C2_FirstValidCandidateWins ==
    /\ \A j \in 1..Len(hist) : hist[j].cand = j
    /\ idx <= Len(downloadUrls)
    /\ dpc \in {"request", "check", "stream", "verify", "caught"} => idx = Len(hist) + 1
    /\ \A k \in 1..Len(hist) :
          ( /\ \A j \in 1..(k - 1) : hist[j].html
            /\ ValidBinary(hist[k]) )
          => /\ Len(hist) = k
             /\ idx = k
             /\ dpc = "returned"
             /\ dres.ok
             /\ dres.from = k
             /\ dres.fileSize = resp.body
             /\ dres.fileSize = hist[k].got
             /\ file.exists /\ file.size = resp.body

\* C2 witness: candidates 1 and 2 answered text/html, candidate 3 answered
\* binary content of MaxBody bytes, and the call returned.
C2_Witness ==
    /\ dpc = "returned"
    /\ Len(hist) = 3
    /\ hist[1].html /\ hist[2].html
    /\ ValidBinary(hist[3])
    /\ dres.fileSize = MaxBody

(***************************************************************************)
(* Claims about pipeline invocations (checked under Spec).                 *)
(***************************************************************************)

\* The fetch or the validation of the selected record's asset failed in the
\* running invocation, in step 3 or in the download of step 4.
FetchFailed ==
    \/ run.dl \in {"fetch", "validation"}
    \/ run.redl \in {"fetch", "validation"}

\* C3: a record's status is set to Uploaded only when both the fetch and
\* the publish call for that record succeeded in the same run; a run whose
\* publish call failed never leaves the record in Uploaded.
C3_UploadedOnlyAfterPublish ==
    [][ \A p \in 1..Len(store) :
          (store[p].status # "Uploaded" /\ store'[p].status = "Uploaded")
          => /\ p = sel
             /\ run.redl = "ok"
             /\ run.pub = "ok" ]_vars

\* C4: whenever the fetch, the post-fetch validation or the publish step
\* fails for the record selected by an invocation, the invocation ends with
\* the record persisted in status Error and returns a failure to its caller.
C4_FailureEndsInError ==
    (pc = "done" /\ sel # 0 /\ (FetchFailed \/ run.pub = "failed"))
    => /\ store[sel].status = "Error"
       /\ ret.ended
       /\ ~ret.success

\* C5: over any sequence of invocations by a single worker, including one
\* that crashes at any point and one whose final store write fails, a given
\* record is published to the platform at most once.
C5_PublishedAtMostOnce ==
    \A p \in 1..Len(published) : published[p] <= 1

\* C6: at every moment while a fetch or a publish of the selected record is
\* in flight, the stored status of that record is Processing.
C6_ProcessingWhileInFlight ==
    pc \in {"download", "up_download", "up_publish"}
    => store[sel].status = "Processing"

(***************************************************************************)
(* Claims about syncVideos (checked under SpecSync).                       *)
(***************************************************************************)

\* The pages the store held before the last pass.
PagesBefore == 1..lastSync.before

\* The listed video at position k matches a page of P by lower-cased
\* trimmed name or by link.
Matches(k, P) ==
    LET v == ProcessedVideo(drive[k])
    IN \E p \in P : \/ Normalize(store[p].title) = Normalize(v.name)
                    \/ store[p].link = v.driveLink

\* C7: with default options, no cap and no store failure, a pass creates
\* exactly one record for each listed item whose lower-cased trimmed name
\* matches no existing title and whose link matches no existing link, and
\* creates no record for any other item, for every inventory and every set
\* of existing records.
C7_CreatesExactlyTheUnmatched ==
    PlainPass(lastSync)
    => /\ \A k \in 1..Len(drive) :
            Cardinality({j \in 1..Len(lastSync.items) : lastSync.items[j] = k})
              = IF Matches(k, PagesBefore) THEN 0 ELSE 1
       /\ Len(store) = lastSync.before + Len(lastSync.items)

\* C8: one pass never creates a record whose normalized title or link
\* already exists in the records held before the pass or in a record
\* created earlier in the same pass.
C8_NoDuplicateCreated ==
    lastSync.ran
    => \A j \in 1..Len(lastSync.items) :
         ~Matches(lastSync.items[j], 1..(lastSync.before + j - 1))

\* C9: a pass that follows a pass on the same inventory, with the store
\* modified only by the first pass (no cap, no store failure), creates no
\* record, whatever the number of records in the store.
C9_SecondPassCreatesNothing ==
    (lastSync.second /\ PlainPass(lastSync))
    => /\ Len(lastSync.items) = 0
       /\ lastSync.added = 0
       /\ Len(store) = lastSync.before

\* C10: in every reachable state of the store, no two records in Pending,
\* Processing or Uploaded share the same normalized title and the same link.
C10_NoLiveDuplicates ==
    \A p, q \in 1..Len(store) :
      ( /\ p # q
        /\ store[p].status \in {"Pending", "Processing", "Uploaded"}
        /\ store[q].status \in {"Pending", "Processing", "Uploaded"} )
      => ~( /\ Normalize(store[p].title) = Normalize(store[q].title)
            /\ store[p].link = store[q].link )

(***************************************************************************)
(* Claims about the selector (checked under SpecSelect).                   *)
(***************************************************************************)

PendingPages == {p \in 1..Len(store) : store[p].status = "Pending"}

\* C11: getNextVideoForUpload returns the record that is first in ascending
\* title order among the Pending records, returns none exactly when no
\* record is Pending, and never returns a record in another status.
C11_SelectorReturnsFirstPending ==
    \A k \in 1..Len(picks) :
      /\ picks[k] = 0 <=> PendingPages = {}
      /\ picks[k] # 0 =>
           /\ store[picks[k]].status = "Pending"
           /\ \A q \in PendingPages : TitleLeq(store[picks[k]].title, store[q].title)

C13_ErrorIncreasesAttempts ==
    [][ \A p \in 1..Len(store) :
          (store[p].status # "Error" /\ store'[p].status = "Error")
          => store'[p].attempts > store[p].attempts ]_vars

\* C14: in every reachable state a record has a non-empty Error Message if
\* and only if its status is Error.
C14_MessageIffError ==
    \A p \in 1..Len(store) :
      store[p].errMsg # "" <=> store[p].status = "Error"

\* C15: in every reachable state a record has both its YouTube URL and its
\* video id set if and only if its status is Uploaded.
C15_PublishedFieldsIffUploaded ==
    \A p \in 1..Len(store) :
      (store[p].url # "" /\ store[p].vid # "") <=> store[p].status = "Uploaded"

(***************************************************************************)
(* Claims about the lifecycle of a record.                                 *)
(***************************************************************************)

\* C16 (SpecLife): once the YouTube URL and the video id of a record are
\* set, no later operation (pipeline run on the record, error marking,
\* maintenance reset) changes or clears them.
C16_PublishedFieldsImmutable ==
    [][ \A p \in 1..Len(store) :
          (store[p].url # "" /\ store[p].vid # "")
          => (store'[p].url = store[p].url /\ store'[p].vid = store[p].vid) ]_vars

\* C17 (SpecLife): the attempts counter is a non-negative integer; a step
\* that changes it either increases it and leaves the record in Error (a
\* record already in Error that is marked again counts as entering Error),
\* or is the maintenance reset from Error to Pending setting it to 0.
C17_AttemptsChangeOnlyOnError ==
    [][ \A p \in 1..Len(store) :
          /\ store'[p].attempts \in Nat
          /\ store'[p].attempts # store[p].attempts
             => \/ /\ store'[p].attempts > store[p].attempts
                   /\ store'[p].status = "Error"
                \/ /\ store'[p].attempts = 0
                   /\ store[p].status = "Error"
                   /\ store'[p].status = "Pending" ]_vars

\* The edges of the state machine of a record.
LifecycleEdges ==
    { <<"Pending", "Processing">>, <<"Processing", "Uploaded">>,
      <<"Processing", "Error">>, <<"Error", "Pending">> }

\* C18 (Spec): a record's status changes only along the edges Pending ->
\* Processing, Processing -> Uploaded, Processing -> Error and Error ->
\* Pending, and Error -> Pending is taken only by cleanupOldErrors, never by
\* a pipeline run.
C18_OnlyLifecycleEdges ==
    [][ \A p \in 1..Len(store) :
          store'[p].status # store[p].status
          => /\ <<store[p].status, store'[p].status>> \in LifecycleEdges
             /\ store[p].status = "Error" => (pc = "idle" /\ pc' = "idle") ]_vars

\* C19 (SpecCleanup): a call of cleanupOldErrors in which no update throws
\* moves every record in Error with an old error timestamp to Pending with
\* attempts 0 and the message cleared, leaves every other record untouched,
\* and returns the number of records it reset.
C19_CleanupResetsEveryOldError ==
    [][ (cleaned'.ran /\ cleaned'.failed = 0)
        => /\ \A p \in 1..Len(store) :
                IF p \in OldErrorPages
                  THEN store'[p] = ResetPage(store[p])
                  ELSE store'[p] = store[p]
           /\ olderErr' = 0
           /\ cleaned'.count = Cardinality(OldErrorPages) + olderErr ]_vars

(***************************************************************************)
(* Claims about runPipeline.                                               *)
(***************************************************************************)

\* The step name runPipeline gives to the phase the invocation is in.
PhaseOf(at) ==
    CASE at = "sync" -> "sync"
      [] at = "select" -> "fetch"
      [] at = "download" -> "download"
      [] at \in {"up_lookup", "up_download", "up_publish", "up_mark"} -> "upload"
      [] at = "update" -> "update"
      [] OTHER -> "none"

\* The order of the phases: reconcile, select, fetch, publish (the four
\* positions of `node 3uploadyoutube.js`), persist-result, end.
PhaseOrder ==
    { <<"sync", "select">>, <<"select", "download">>, <<"select", "finish">>,
      <<"download", "up_lookup">>, <<"up_lookup", "up_download">>,
      <<"up_download", "up_publish">>, <<"up_publish", "up_mark">>,
      <<"up_mark", "update">>, <<"update", "finish">> }

\* C20 (Spec): runPipeline runs reconcile (unless disabled), select, fetch,
\* publish, persist-result in this order; a phase starts only when the one
\* before it has finished successfully, and when a phase fails no later
\* phase runs and the result is success = false naming that phase.
C20_PhasesInOrderFailureNamed ==
    [][ /\ (pc = "idle" /\ pc' # "idle")
           => pc' = IF opts'.sync THEN "sync" ELSE "select"
        /\ (pc \notin {"idle", "done"} /\ pc' \notin {pc, "idle"})
           => \/ /\ <<pc, pc'>> \in PhaseOrder
                 /\ ~ret'.ended
                 /\ (pc' = "finish" /\ pc = "select") => opts.preview
              \/ /\ pc = "finish"
                 /\ pc' = "done"
                 /\ ret' = Success
              \/ /\ pc # "finish"
                 /\ pc' = "done"
                 /\ ret' = Failure(PhaseOf(pc)) ]_vars

\* C21 (Spec): a runPipeline invocation in preview mode mutates nothing:
\* while it runs no record is created or changed, nothing is fetched to the
\* disk and nothing is published.
C21_PreviewMutatesNothing ==
    [][ (pc # "idle" /\ opts.preview)
        => /\ store' = store
           /\ disk' = disk
           /\ published' = published ]_vars

\* C22 (Spec): an invocation that published its record does not report
\* success while the record's stored status is not Uploaded: a store
\* failure in the final update is surfaced to the caller.
C22_StoreFailureSurfaced ==
    (pc = "done" /\ ret.success /\ run.pub = "ok")
    => store[sel].status = "Uploaded"

\* C23 (Spec): when an invocation that selected a record returns the
\* failure of one of its phases, no downloaded asset of that record is on
\* the disk.
C23_NoAssetLeftAfterFailure ==
    (pc = "done" /\ ~ret.success /\ ret.step # "none" /\ sel # 0)
    => store[sel].link \notin disk

(***************************************************************************)
(* Claims about the failure of downloadFromDrive (SpecFetch).              *)
(***************************************************************************)

\* A candidate that did not deliver: it declared text/html, or its request
\* or its stream failed, or its file was empty.
BadAnswer(a) == a.html \/ ~a.fin \/ a.got = 0

\* C24 (SpecFetch): when every candidate returns markup, yields a zero-byte
\* body or errors, in any combination and order, downloadFromDrive fails;
\* so a call that returns a result got it from a candidate that did none
\* of the three.
C24_FailsWhenEveryCandidateFails ==
    /\ (Len(hist) = Len(downloadUrls) /\ \A k \in 1..Len(hist) : BadAnswer(hist[k]))
       => (dpc = "thrown" /\ ~dres.ok)
    /\ dres.ok => (hist # <<>> /\ ~BadAnswer(hist[Len(hist)]))

\* A call that failed after one candidate of each kind: markup, empty body,
\* request or stream error.
C24_Witness ==
    /\ dpc = "thrown"
    /\ \E k \in 1..Len(hist) : hist[k].html
    /\ \E k \in 1..Len(hist) : ~hist[k].html /\ hist[k].fin /\ hist[k].got = 0
    /\ \E k \in 1..Len(hist) : ~hist[k].html /\ ~hist[k].fin

\* C25 (SpecFetch): when all candidates fail, the error downloadFromDrive
\* fails with is the error the last candidate of the list raised, whatever
\* the kinds of the failures were.
C25_CarriesLastCandidateError ==
    dpc = "thrown"
    => /\ dres.from = Len(downloadUrls)
       /\ dres.error = cerr
       /\ cerr # "none"

C27_SizeMatchesDeclaredLength ==
    (dpc = "returned" /\ resp.clen # 0) => dres.fileSize = resp.clen

(***************************************************************************)
(* Claims about extractFileIdFromUrl (SpecExtract).                        *)
(***************************************************************************)

\* The first pattern, in the given order of trial, that matches the link
\* (0: none does).
FirstMatching(order) ==
    LET hits == {n \in 1..Len(order) : Match(url, patterns[order[n]]) # <<>>}
    IN IF hits = {} THEN 0
       ELSE order[CHOOSE n \in hits : \A h \in hits : n <= h]

\* Once the extraction is done: the id is the capture of the first pattern
\* of `order` that matches; when none matches the call has failed and no
\* candidate was requested.
ExtractsInOrder(order) ==
    dpc # "extract"
    => IF FirstMatching(order) = 0
         THEN /\ ~fileId.ok
              /\ dpc = "thrown" /\ ~dres.ok
              /\ idx = 0 /\ hist = <<>> /\ resp = NoResp
         ELSE /\ fileId.ok
              /\ fileId.id = Match(url, patterns[FirstMatching(order)])[1]
              /\ dpc = "start"

\* C28 (SpecExtract), as claimed: the matchers are tried in the order
\* path-segment forms (/file/d/ID, /d/ID), query-parameter forms
\* (/open?id=ID, id=ID), bare identifier; the capture of the first that
\* matches is returned, and when none matches the call fails and no fetch
\* is attempted.
C28_PathThenQueryThenBare == ExtractsInOrder(<<1, 3, 2, 4, 5>>)

\* C28 (SpecExtract), amended: the matchers are tried in the order
\* /file/d/ID, /open?id=ID, /d/ID, id=ID, bare identifier; the capture of
\* the first that matches is returned, and when none matches the call fails
\* and no fetch is attempted.
C28_ArrayOrder == ExtractsInOrder(<<1, 2, 3, 4, 5>>)

\* A link in which /open?id= and /d/ both match, with different captures,
\* and the id returned is the one after /open?id=.
C28_Witness ==
    /\ dpc = "start"
    /\ Match(url, patterns[2]) # <<>>
    /\ Match(url, patterns[3]) # <<>>
    /\ Match(url, patterns[2]) # Match(url, patterns[3])
    /\ Match(url, patterns[1]) = <<>>
    /\ fileId.id = Match(url, patterns[2])[1]

(***************************************************************************)
(* Claims about the cap and the failures of a syncVideos pass (SpecSync).  *)
(***************************************************************************)

\* C29 (SpecSync): a pass given a numeric cap c >= 0 creates at most c
\* records and attempts at most c creations; the new items beyond the cap
\* are not counted as errors.
C29_AtMostCapCreated ==
    (lastSync.ran /\ lastSync.opts.limit # NoLimit)
    => /\ Len(lastSync.items) <= lastSync.opts.limit
       /\ Len(store) - lastSync.before <= lastSync.opts.limit
       /\ lastSync.added + lastSync.errors <= lastSync.opts.limit

\* C30 (SpecSync): a creation that fails does not abort the pass.  In a
\* pass that is not a dry run, `added` is the number of records created and
\* the store grew by as many; without a cap every listed item was skipped,
\* created or counted as an error, so the items after a failed one were
\* still attempted.
C30_FailureDoesNotAbortPass ==
    (lastSync.ran /\ ~lastSync.opts.dryRun)
    => /\ lastSync.added = Len(lastSync.items)
       /\ Len(store) = lastSync.before + lastSync.added
       /\ (drive # <<>> /\ lastSync.opts.limit = NoLimit)
          => lastSync.added + lastSync.errors + lastSync.skipped = Len(drive)

\* A pass over two new items in which the creation of the first failed and
\* the second was created.
C30_Witness ==
    /\ lastSync.ran
    /\ ~lastSync.opts.dryRun
    /\ Len(drive) = 2
    /\ lastSync.skipped = 0
    /\ lastSync.errors = 1
    /\ lastSync.items = <<2>>

(***************************************************************************)
(* Claims about the records a pass creates (SpecCreate).                   *)
(***************************************************************************)

\* The name without its trailing extension: what stands before the last
\* dot, when something other than "/" follows that dot.
WithoutExtension(n) ==
    LET dots == {k \in 1..Len(n) : n[k] = "."}
    IN IF dots = {} THEN n
       ELSE LET last == CHOOSE k \in dots : \A d \in dots : d <= k
            IN IF last = Len(n) \/ \E m \in (last + 1)..Len(n) : n[m] = "/"
                 THEN n
                 ELSE SubSeq(n, 1, last - 1)

\* C31 (SpecCreate): every record a pass creates is Pending, Public,
\* Education, with empty description and tags, its title is the item's name
\* without the trailing extension, and its link contains the item's id and
\* is the same for the same id.
C31_CreatedRecordDefaults ==
    lastSync.ran
    => \A j \in 1..Len(lastSync.items) :
         LET r == store[lastSync.before + j]
             f == drive[lastSync.items[j]]
         IN /\ r.status = "Pending"
            /\ r.privacy = "Public"
            /\ r.category = "Education"
            /\ r.description = ""
            /\ r.tags = ""
            /\ r.title = WithoutExtension(f.name)
            /\ \E k \in 1..Len(r.link) : r.link[k] = f.id
            /\ \A p \in 1..Len(store) :
                 (\E k \in 1..Len(store[p].link) : store[p].link[k] = f.id)
                 => store[p].link = r.link

\* A pass created the records of two items, one whose name has two dots
\* and one whose name has no extension.
C31_Witness ==
    /\ lastSync.ran
    /\ Len(lastSync.items) = 2
    /\ \E j \in 1..2 : drive[lastSync.items[j]].name = <<"a", ".", "b", ".", "m">>
    /\ \E j \in 1..2 : drive[lastSync.items[j]].name = <<"a">>

(***************************************************************************)
(* Claims about the status annotation (SpecLife).                          *)
(***************************************************************************)

\* C32 (SpecLife): a call of updateNotionAfterUpload whose page update went
\* through returns the update result and leaves the page in the status of
\* the transition, whether or not the comment could be added.
C32_CommentFailureKeepsTransition ==
    [][ (lastUpdate' # lastUpdate /\ lastUpdate'.wrote)
        => /\ lastUpdate'.ended = "returned"
           /\ store'[lastUpdate'.page].status =
                IF lastUpdate'.success THEN "Uploaded" ELSE "Error" ]_vars

\* A transition to Error and a transition to Uploaded whose comment failed.
C32_Witness ==
    /\ lastUpdate.ran
    /\ lastUpdate.wrote
    /\ ~lastUpdate.commented
    /\ lastUpdate.success
    /\ store[lastUpdate.page].status = "Uploaded"

(***************************************************************************)
(* Claims about two concurrent invocations (SpecRace).                     *)
(***************************************************************************)

\* C33 (SpecRace): from the selector's read up to its first persisted
\* transition (markAsUploaded after the publish call, or markAsError after
\* a failure in step 4) an invocation writes nothing to the record store,
\* so the selected page stays Pending for the selector of a second
\* invocation; the state in which both invocations have selected the same
\* Pending page and both have published it is reachable (C33_Witness).
C33_NothingClaimsSelectedRecord ==
    [][ ( /\ other' = other
          /\ pc \in {"select", "download", "up_lookup", "up_download", "up_publish"}
          /\ pc' \in {"download", "up_lookup", "up_download", "up_publish",
                      "up_mark", "finish"} )
        => store' = store ]_vars

\* Both invocations hold the same page, both have inserted a video for it,
\* and neither has written the store yet: the page is still Pending.
C33_Witness ==
    /\ sel # 0
    /\ other.sel = sel
    /\ pc = "up_mark"
    /\ other.pc = "up_mark"
    /\ run.pub = "ok"
    /\ other.run.pub = "ok"
    /\ published[sel] = 2
    /\ store[sel].status = "Pending"

(***************************************************************************)
(* Claims about the metadata of a publication (SpecMeta).                  *)
(***************************************************************************)

RECURSIVE TagCount(_)
TagCount(runs) == IF runs = <<>> THEN 0 ELSE Head(runs).times + TagCount(Tail(runs))

\* The limits of title, description and tags.
WithinLengthLimits(m) ==
    /\ m.title >= 1
    /\ m.title <= 100
    /\ m.description <= 5000
    /\ TagCount(m.tags) <= 500
    /\ \A k \in 1..Len(m.tags) : m.tags[k].len <= 500

\* C34 (SpecMeta): the requestBody that uploadToYoutube passes to
\* videos.insert has a non-empty title of at most 100 characters, a
\* description of at most 5000 characters, at most 500 tags of at most 500
\* characters each, and a privacyStatus among public, unlisted, private.
C34_MetadataWithinLimits ==
    videoMetadata.inserted
    => /\ WithinLengthLimits(videoMetadata)
       /\ videoMetadata.privacyStatus \in {"public", "unlisted", "private"}

(***************************************************************************)
(* Claims about the phases of one invocation (Spec).                       *)
(***************************************************************************)

\* The downloads of the asset the running invocation has started: that of
\* step 3 and that of uploadVideoById (a download that failed at the lookup
\* of the record has requested nothing from Drive).
Fetches(r) ==
    (IF r.dl \in {"ok", "fetch", "validation"} THEN 1 ELSE 0)
    + (IF r.redl \in {"ok", "fetch", "validation"} THEN 1 ELSE 0)

\* C35 (Spec): within one invocation the positions are passed in the order
\* of the phases, so the reconciler and the selector run once and the
\* publish call is made at most once, and the asset is fetched from Drive
\* once.
C35_EachPhaseOnce ==
    [][ /\ (pc \notin {"idle", "done"} /\ pc' \notin {pc, "idle", "done"})
           => <<pc, pc'>> \in PhaseOrder
        /\ Publications(published') # Publications(published)
           => /\ pc = "up_publish"
              /\ Publications(published') = Publications(published) + 1
        /\ Fetches(run') <= 1 ]_vars

(***************************************************************************)
(* Claims about the progress of selection (SpecSelect).                    *)
(***************************************************************************)

\* C36 (SpecSelect): whenever the store holds a Pending record with a
\* title and a link, getNextVideoForUpload returns a record; a Pending
\* record without title or link that sorts first does not block the valid
\* Pending records behind it.
C36_ValidPendingIsSelected ==
    (\E p \in PendingPages : IsValidVideo(store[p]))
    => \A k \in 1..Len(picks) : picks[k] # 0

(***************************************************************************)
(* Claims about records in Error (Spec).                                   *)
(***************************************************************************)

\* C37 (Spec): every record in status Error carries an error timestamp
\* ('Error Date'), the property by which cleanupOldErrors finds the records
\* it returns to Pending.
C37_ErrorCarriesErrorDate ==
    \A p \in 1..Len(store) :
      store[p].status = "Error" => store[p].errDate # "none"

(***************************************************************************)
(* Claims about files left by earlier calls (SpecFetch).                   *)
(***************************************************************************)

\* C38 (SpecFetch): no file is at the target path when the first candidate
\* is tried, and the file of a successful result was created by the
\* candidate that answered and holds exactly the bytes streamed from its
\* response: a file left by an earlier call is never returned.
C38_StaleFileNeverReturned ==
    /\ (dpc = "request" /\ idx = 1) => ~file.exists
    /\ dpc = "returned"
       => /\ file.exists
          /\ file.src = idx
          /\ file.src # 0
          /\ file.size = sent
          /\ dres.fileSize = sent

\* A call that found a file of an earlier call and returned successfully.
C38_Witness ==
    /\ existed
    /\ dpc = "returned"
    /\ dres.ok

(***************************************************************************)
(* Claims about the result of uploadVideoById (Spec).                      *)
(***************************************************************************)

\* C39 (Spec): uploadVideoById reports every failure as a value: when the
\* record lookup, the download or the publish call fails, its promise is
\* resolved with a result object (success = false) and never rejected.
C39_FailureReportedAsValue ==
    run.upload # "rejected"

====
